---- MODULE Spec2Model ----
(***************************************************************************)
(* segmap: a map from non-overlapping ranges over an ordered key type to   *)
(* values.  Range (src/range.rs) and Key (src/map/key.rs) are translated   *)
(* from their source; the bound orders and the mutation engine (insert,    *)
(* remove, get) follow the design document, sections 3, 4.1 and 4.4.       *)
(***************************************************************************)
EXTENDS Integers, FiniteSets, Sequences, TLC

VARIABLES
    map,     \* RangeMap.map: the stored entries, a set of [range, value]
    stupid,  \* StupidU32RangeMap.btm: the per-point reference map
    op,      \* the last call made on the map: kind, range (normalized), value
    gaps,    \* the Gaps iterator borrowing the map, NoGaps when there is none
    call     \* a call of a Range function: its arguments and what it returned

vars == <<map, stupid, op, gaps, call>>

(***************************************************************************)
(* Bounds of the model                                                     *)
(***************************************************************************)
\* Bounds given by callers carry the values 1..MaxKey.
MaxKey == 2

BoundKeys == 1..MaxKey

\* The keys looked up: the bound values, one key below them all (u32::MIN)
\* and one key above them all (standing for every larger u32).
MinPoint == 0
MaxPoint == MaxKey + 1
Points == MinPoint..MaxPoint

Values == BOOLEAN

(***************************************************************************)
(* Option<T>                                                               *)
(***************************************************************************)
None == <<>>
Some(x) == <<x>>
IsSome(o) == o # None
Unwrap(o) == o[1]

(***************************************************************************)
(* core::ops::Bound                                                        *)
(***************************************************************************)
Unbounded == [kind |-> "Unbounded", val |-> 0]
Included(x) == [kind |-> "Included", val |-> x]
Excluded(x) == [kind |-> "Excluded", val |-> x]

Bound == {Unbounded} \cup {Included(x) : x \in BoundKeys}
                     \cup {Excluded(x) : x \in BoundKeys}

(***************************************************************************)
(* StartBound / EndBound: position-specific total orders (design           *)
(* document, section 3) and adjacency (section 4.1).                       *)
(***************************************************************************)
\* StartBound: Unbounded < any bounded; at equal value Included < Excluded.
StartBoundLt(a, b) ==
    CASE a.kind = "Unbounded" -> b.kind # "Unbounded"
      [] b.kind = "Unbounded" -> FALSE
      [] a.val # b.val -> a.val < b.val
      [] OTHER -> a.kind = "Included" /\ b.kind = "Excluded"

\* EndBound: any bounded < Unbounded; at equal value Excluded < Included.
EndBoundLt(a, b) ==
    CASE b.kind = "Unbounded" -> a.kind # "Unbounded"
      [] a.kind = "Unbounded" -> FALSE
      [] a.val # b.val -> a.val < b.val
      [] OTHER -> a.kind = "Excluded" /\ b.kind = "Included"

StartBoundMax(a, b) == IF StartBoundLt(b, a) THEN a ELSE b
StartBoundMin(a, b) == IF StartBoundLt(b, a) THEN b ELSE a
EndBoundMin(a, b) == IF EndBoundLt(b, a) THEN b ELSE a
EndBoundMax(a, b) == IF EndBoundLt(b, a) THEN a ELSE b

\* StartBound::before: the end bound of the region just before this start.
before(s) ==
    CASE s.kind = "Included" -> Some(Excluded(s.val))
      [] s.kind = "Excluded" -> Some(Included(s.val))
      [] OTHER -> None

\* EndBound::after: the start bound of the region just after this end.
after(e) ==
    CASE e.kind = "Included" -> Some(Excluded(e.val))
      [] e.kind = "Excluded" -> Some(Included(e.val))
      [] OTHER -> None

(***************************************************************************)
(* Range                                                                   *)
(***************************************************************************)
Range(s, e) == [start |-> s, end |-> e]

\* Mutation of Range::new: the Ordering::Equal arm keeps the bounds as given
\* instead of coercing them to the point [x, x].
Range_new_uncoerced(start, end) ==
    IF start.kind # "Unbounded" /\ end.kind # "Unbounded"
    THEN CASE start.val <= end.val -> Range(start, end)
           [] OTHER -> Range(end, start)
    ELSE Range(start, end)

\* Range::new: equal values coerce to the point [x, x], a decreasing pair
\* is flipped, everything else is kept as given.
Range_new(start, end) ==
    IF start.kind # "Unbounded" /\ end.kind # "Unbounded"
    THEN CASE start.val = end.val ->
                  Range(Included(start.val), Included(end.val))
           [] start.val < end.val -> Range(start, end)
           [] OTHER -> Range(end, start)
    ELSE Range(start, end)

full == Range(Unbounded, Unbounded)

\* Mutation of Range::bound_before: the start bound is handed back as an
\* end bound with its kind unchanged.
bound_before_unflipped(r) ==
    IF r.start.kind = "Unbounded" THEN None ELSE Some(r.start)

bound_before(r) == before(r.start)
bound_after(r) == after(r.end)

\* RangeBounds::contains on a Range.
contains(r, p) ==
    /\ CASE r.start.kind = "Included" -> r.start.val <= p
         [] r.start.kind = "Excluded" -> r.start.val < p
         [] OTHER -> TRUE
    /\ CASE r.end.kind = "Included" -> p <= r.end.val
         [] r.end.kind = "Excluded" -> p < r.end.val
         [] OTHER -> TRUE

\* Mutation of Range::overlaps: the (Included, Included) arm compares with
\* a < b, so two ranges sharing exactly one point are not seen to overlap.
overlaps_strict(self, other) ==
    LET a == StartBoundMax(self.start, other.start)
        b == EndBoundMin(self.end, other.end)
    IN  CASE a.kind = "Unbounded" \/ b.kind = "Unbounded" -> TRUE
          [] OTHER -> a.val < b.val

\* Mutation of Range::overlaps: the earlier of the two starts is taken
\* (cmp::min for cmp::max).
overlaps_min_start(self, other) ==
    LET a == StartBoundMin(self.start, other.start)
        b == EndBoundMin(self.end, other.end)
    IN  CASE a.kind = "Unbounded" \/ b.kind = "Unbounded" -> TRUE
          [] a.kind = "Included" /\ b.kind = "Included" -> a.val <= b.val
          [] OTHER -> a.val < b.val

\* Mutation of Range::overlaps: the start of self is taken instead of the
\* later of the two starts.
overlaps_self_start(self, other) ==
    LET a == self.start
        b == EndBoundMin(self.end, other.end)
    IN  CASE a.kind = "Unbounded" \/ b.kind = "Unbounded" -> TRUE
          [] a.kind = "Included" /\ b.kind = "Included" -> a.val <= b.val
          [] OTHER -> a.val < b.val

\* Range::overlaps: the later start against the earlier end.
overlaps(self, other) ==
    LET a == StartBoundMax(self.start, other.start)
        b == EndBoundMin(self.end, other.end)
    IN  CASE a.kind = "Unbounded" \/ b.kind = "Unbounded" -> TRUE
          [] a.kind = "Included" /\ b.kind = "Included" -> a.val <= b.val
          [] OTHER -> a.val < b.val

\* Mutation of Range::touches: the body of overlaps, so exact adjacency is
\* not seen.
touches_as_overlaps(self, other) ==
    LET a == StartBoundMax(self.start, other.start)
        b == EndBoundMin(self.end, other.end)
    IN  CASE a.kind = "Unbounded" \/ b.kind = "Unbounded" -> TRUE
          [] a.kind = "Included" /\ b.kind = "Included" -> a.val <= b.val
          [] OTHER -> a.val < b.val

\* Mutation of Range::touches: the (Excluded, Excluded) arm is missing, so
\* two ranges leaving out the same point are seen to touch.
touches_excluded(self, other) ==
    LET a == StartBoundMax(self.start, other.start)
        b == EndBoundMin(self.end, other.end)
    IN  CASE a.kind = "Unbounded" \/ b.kind = "Unbounded" -> TRUE
          [] OTHER -> a.val <= b.val

\* Range::touches: overlapping, or coming directly up to the other range.
touches(self, other) ==
    LET a == StartBoundMax(self.start, other.start)
        b == EndBoundMin(self.end, other.end)
    IN  CASE a.kind = "Unbounded" \/ b.kind = "Unbounded" -> TRUE
          [] a.kind = "Excluded" /\ b.kind = "Excluded" -> a.val < b.val
          [] OTHER -> a.val <= b.val

(***************************************************************************)
(* Ordered storage: BTreeMap<Key<K>, V>, Key ordered and compared by the   *)
(* start bound of its range only.                                          *)
(***************************************************************************)
Entry(r, v) == [range |-> r, value |-> v]

\* Key::eq: keys are equal when their ranges start at the same bound.
KeyEq(a, b) == a.start = b.start

\* Mutation of Key::cmp: the operands are swapped.
KeyLt_reversed(a, b) == StartBoundLt(b.start, a.start)

\* Key::cmp: keys are ordered by the start bound of their range.
KeyLt(a, b) == StartBoundLt(a.start, b.start)

\* BTreeMap::insert: an equal key keeps the stored key and takes the value.
btree_insert(m, r, v) ==
    IF \E E \in m : KeyEq(E.range, r)
    THEN {IF KeyEq(E.range, r) THEN Entry(E.range, v) ELSE E : E \in m}
    ELSE m \cup {Entry(r, v)}

RECURSIVE btree_extend(_, _)
\* Insert a set of entries one by one, in ascending key order.
btree_extend(m, S) ==
    IF S = {} THEN m
    ELSE LET E == CHOOSE X \in S : \A Y \in S : ~KeyLt(Y.range, X.range)
         IN  btree_extend(btree_insert(m, E.range, E.value), S \ {E})

(***************************************************************************)
(* Mutation engine and query layer (design document, section 4.4)          *)
(***************************************************************************)
\* The least start / greatest end of a non-empty set of bounds.
MinStart(S) == CHOOSE s \in S : \A t \in S : ~StartBoundLt(t, s)
MaxEnd(S) == CHOOSE e \in S : \A t \in S : ~EndBoundLt(e, t)

\* Step 2 of insert: the stored entries that take part.
participates(E, R, value) ==
    overlaps(E.range, R) \/ (touches(E.range, R) /\ E.value = value)

\* The part of E before R / after R, carrying E's value.
fragment_before(E, R) == Entry(Range(E.range.start, Unwrap(before(R.start))), E.value)
fragment_after(E, R) == Entry(Range(Unwrap(after(R.end)), E.range.end), E.value)

\* RangeMap::insert on the normalized range R.
insert(m, R, value) ==
    LET P == {E \in m : participates(E, R, value)}
        same == {E \in P : E.value = value}
        diff == P \ same
        heads == {fragment_before(E, R) :
                     E \in {X \in diff : StartBoundLt(X.range.start, R.start)}}
        tails == {fragment_after(E, R) :
                     E \in {X \in diff : EndBoundLt(R.end, X.range.end)}}
        span == Range(MinStart({R.start} \cup {E.range.start : E \in same}),
                      MaxEnd({R.end} \cup {E.range.end : E \in same}))
    IN  btree_insert(btree_extend(m \ P, heads \cup tails), span, value)

\* Mutation of RangeMap::remove: only the first overlapping entry is cut,
\* the other overlapping entries are left as they are.
remove_first_only(m, R) ==
    LET A == {E \in m : overlaps(E.range, R)}
        O == {E \in A : \A F \in A : ~StartBoundLt(F.range.start, E.range.start)}
        heads == {fragment_before(E, R) :
                     E \in {X \in O : StartBoundLt(X.range.start, R.start)}}
        tails == {fragment_after(E, R) :
                     E \in {X \in O : EndBoundLt(R.end, X.range.end)}}
    IN  btree_extend(m \ O, heads \cup tails)

\* RangeMap::remove on the normalized range R.
remove(m, R) ==
    LET O == {E \in m : overlaps(E.range, R)}
        heads == {fragment_before(E, R) :
                     E \in {X \in O : StartBoundLt(X.range.start, R.start)}}
        tails == {fragment_after(E, R) :
                     E \in {X \in O : EndBoundLt(R.end, X.range.end)}}
    IN  btree_extend(m \ O, heads \cup tails)

\* RangeMap::get_range_value: the entry with the greatest start at or below
\* Included(point), if the point lies within its end bound.
get_range_value(m, p) ==
    LET C == {E \in m : ~StartBoundLt(Included(p), E.range.start)}
    IN  IF C = {} THEN None
        ELSE LET E == CHOOSE X \in C : \A Y \in C : ~KeyLt(X.range, Y.range)
             IN  IF \/ E.range.end.kind = "Unbounded"
                    \/ E.range.end.kind = "Included" /\ p <= E.range.end.val
                    \/ E.range.end.kind = "Excluded" /\ p < E.range.end.val
                 THEN Some(E) ELSE None

\* RangeMap::get
get(m, p) ==
    LET o == get_range_value(m, p)
    IN  IF IsSome(o) THEN Some(Unwrap(o).value) ELSE None

(***************************************************************************)
(* StupidU32RangeMap: the brute-force reference of the tests               *)
(***************************************************************************)
StupidStart(r) ==
    CASE r.start.kind = "Unbounded" -> MinPoint
      [] r.start.kind = "Included" -> r.start.val
      [] OTHER -> r.start.val + 1

StupidEnd(r) ==
    CASE r.end.kind = "Unbounded" -> MaxPoint
      [] r.end.kind = "Included" -> r.end.val
      [] OTHER -> r.end.val - 1

\* StupidU32RangeMap::new
StupidNew == [k \in Points |-> None]

\* StupidU32RangeMap::insert: the value at every key of start..=end.
StupidInsert(btm, r, value) ==
    [k \in Points |->
        IF StupidStart(r) <= k /\ k <= StupidEnd(r) THEN Some(value) ELSE btm[k]]

\* The reference removal: every key of start..=end is deleted.
StupidRemove(btm, r) ==
    [k \in Points |->
        IF StupidStart(r) <= k /\ k <= StupidEnd(r) THEN None ELSE btm[k]]

RECURSIVE StupidExtend(_, _)
StupidExtend(btm, S) ==
    IF S = {} THEN btm
    ELSE LET E == CHOOSE X \in S : \A Y \in S : ~KeyLt(Y.range, X.range)
         IN  StupidExtend(StupidInsert(btm, E.range, E.value), S \ {E})

\* From<RangeMap<u32, V>> for StupidU32RangeMap<V>
StupidFrom(m) == StupidExtend(StupidNew, m)

(***************************************************************************)
(* The state machine: a map built by any sequence of insert and remove     *)
(***************************************************************************)
\* No Gaps iterator is alive; no Range function is being called.
NoGaps == [alive |-> FALSE]
NoCall == [pc |-> "none"]

Init ==
    /\ map = {}
    /\ stupid = StupidNew
    /\ op = [kind |-> "new", range |-> full, value |-> FALSE]
    /\ gaps = NoGaps
    /\ call = NoCall

\* Every range a caller can hand over, as Range::new constructs it.
Ranges == {Range_new(s, e) : s \in Bound, e \in Bound}

\* insert and remove take the map by exclusive borrow: no iterator is alive.
Insert ==
    /\ gaps = NoGaps
    /\ call = NoCall
    /\ \E R \in Ranges, v \in Values :
          /\ map' = insert(map, R, v)
          /\ stupid' = StupidInsert(stupid, R, v)
          /\ op' = [kind |-> "insert", range |-> R, value |-> v]
    /\ UNCHANGED <<gaps, call>>

Remove ==
    /\ gaps = NoGaps
    /\ call = NoCall
    /\ \E R \in Ranges :
          /\ map' = remove(map, R)
          /\ stupid' = StupidRemove(stupid, R)
          /\ op' = [kind |-> "remove", range |-> R, value |-> FALSE]
    /\ UNCHANGED <<gaps, call>>

Next == Insert \/ Remove

Spec == Init /\ [][Next]_vars

(***************************************************************************)
(* In-place value edits: iter_mut() / values_mut() hand out &mut V for     *)
(* every stored entry, next to the immutable range.                        *)
(***************************************************************************)
\* IterMut::next / ValuesMut::next yield the value of entry E by mutable
\* reference and the caller writes v through it; the key stays as it is.
iter_mut_write(m, E, v) == (m \ {E}) \cup {Entry(E.range, v)}

\* One value written through values_mut() or iter_mut().
ValuesMut ==
    /\ gaps = NoGaps
    /\ \E E \in map, v \in Values :
          /\ map' = iter_mut_write(map, E, v)
          /\ op' = [kind |-> "values_mut", range |-> E.range, value |-> v]
    /\ stupid' = StupidFrom(map')
    /\ UNCHANGED <<gaps, call>>

NextMut == Insert \/ Remove \/ ValuesMut

\* Every sequence of the public mutations: insert, remove and value edits.
SpecMut == Init /\ [][NextMut]_vars

(***************************************************************************)
(* gaps(): the iterator over the regions between consecutive entries.      *)
(***************************************************************************)
\* Calls of next() made after the first None.
MaxAfterNone == 2

RECURSIVE iter(_)
\* RangeMap::iter / Iter::next: the entries in ascending key order.
iter(m) ==
    IF m = {} THEN <<>>
    ELSE LET E == CHOOSE E \in m : \A F \in m \ {E} : KeyLt(E.range, F.range)
         IN  <<E>> \o iter(m \ {E})

\* What one call of Gaps::next leaves: the two fields, the returned Option
\* and whether the expect() failed.
GapsStep(it, prev, ret, panic) ==
    [iter |-> it, prev |-> prev, ret |-> ret, panic |-> panic]

\* Mutation of Gaps::next: the first gap does not store its right entry.
gaps_next_forgets_prev(it, prev) ==
    IF it # <<>>
    THEN LET next == Head(it).range
             it1 == Tail(it)
         IN  IF IsSome(prev)
             THEN LET start == bound_after(Unwrap(prev))
                      end == bound_before(next)
                  IN  IF ~IsSome(start) THEN GapsStep(it1, prev, None, FALSE)
                      ELSE IF ~IsSome(end) THEN GapsStep(it1, prev, None, TRUE)
                      ELSE GapsStep(it1, Some(next),
                                    Some(Range(Unwrap(start), Unwrap(end))), FALSE)
             ELSE LET start == bound_after(next)
                  IN  IF ~IsSome(start) THEN GapsStep(it1, prev, None, FALSE)
                      ELSE IF it1 # <<>>
                      THEN LET next2 == Head(it1).range
                               end == bound_before(next2)
                           IN  IF ~IsSome(end)
                               THEN GapsStep(Tail(it1), prev, None, TRUE)
                               ELSE GapsStep(Tail(it1), prev,
                                        Some(Range(Unwrap(start), Unwrap(end))), FALSE)
                      ELSE GapsStep(it1, prev, None, FALSE)
    ELSE GapsStep(it, prev, None, FALSE)

\* Mutation of Gaps::next: the first gap starts from bound_before of the
\* first entry, so an entry unbounded below ends the call early.
gaps_next_first_before(it, prev) ==
    IF it # <<>>
    THEN LET next == Head(it).range
             it1 == Tail(it)
         IN  IF IsSome(prev)
             THEN LET start == bound_after(Unwrap(prev))
                      end == bound_before(next)
                  IN  IF ~IsSome(start) THEN GapsStep(it1, prev, None, FALSE)
                      ELSE IF ~IsSome(end) THEN GapsStep(it1, prev, None, TRUE)
                      ELSE GapsStep(it1, Some(next),
                                    Some(Range(Unwrap(start), Unwrap(end))), FALSE)
             ELSE LET start == bound_before(next)
                  IN  IF ~IsSome(start) THEN GapsStep(it1, prev, None, FALSE)
                      ELSE IF it1 # <<>>
                      THEN LET next2 == Head(it1).range
                               end == bound_before(next2)
                           IN  IF ~IsSome(end)
                               THEN GapsStep(Tail(it1), prev, None, TRUE)
                               ELSE GapsStep(Tail(it1), Some(next2),
                                        Some(Range(Unwrap(start), Unwrap(end))), FALSE)
                      ELSE GapsStep(it1, prev, None, FALSE)
    ELSE GapsStep(it, prev, None, FALSE)

\* Gaps::next.  `?` on bound_after returns None with the entry already taken
\* from iter; expect() on bound_before panics.
gaps_next(it, prev) ==
    IF it # <<>>
    THEN LET next == Head(it).range
             it1 == Tail(it)
         IN  IF IsSome(prev)
             THEN LET start == bound_after(Unwrap(prev))
                      end == bound_before(next)
                  IN  IF ~IsSome(start) THEN GapsStep(it1, prev, None, FALSE)
                      ELSE IF ~IsSome(end) THEN GapsStep(it1, prev, None, TRUE)
                      ELSE GapsStep(it1, Some(next),
                                    Some(Range(Unwrap(start), Unwrap(end))), FALSE)
             ELSE LET start == bound_after(next)
                  IN  IF ~IsSome(start) THEN GapsStep(it1, prev, None, FALSE)
                      ELSE IF it1 # <<>>
                      THEN LET next2 == Head(it1).range
                               end == bound_before(next2)
                           IN  IF ~IsSome(end)
                               THEN GapsStep(Tail(it1), prev, None, TRUE)
                               ELSE GapsStep(Tail(it1), Some(next2),
                                        Some(Range(Unwrap(start), Unwrap(end))), FALSE)
                      ELSE GapsStep(it1, prev, None, FALSE)
    ELSE GapsStep(it, prev, None, FALSE)

\* RangeMap::gaps: a fresh iterator over the map, prev: None.  `out` lists
\* the ranges returned so far, `ret` is the last return, `nones` counts the
\* calls that returned None.
GapsStart ==
    /\ gaps = NoGaps
    /\ gaps' = [alive |-> TRUE, iter |-> iter(map), prev |-> None,
                out |-> <<>>, ret |-> None, nones |-> 0, panic |-> FALSE]
    /\ UNCHANGED <<map, stupid, op, call>>

\* One call of next() on the live iterator.
GapsNext ==
    /\ gaps.alive
    /\ ~gaps.panic
    /\ gaps.nones <= MaxAfterNone
    /\ LET g == gaps_next(gaps.iter, gaps.prev)
       IN  gaps' = [alive |-> TRUE, iter |-> g.iter, prev |-> g.prev,
                    out |-> IF IsSome(g.ret)
                            THEN Append(gaps.out, Unwrap(g.ret))
                            ELSE gaps.out,
                    ret |-> g.ret,
                    nones |-> IF IsSome(g.ret) \/ g.panic
                              THEN gaps.nones ELSE gaps.nones + 1,
                    panic |-> g.panic]
    /\ UNCHANGED <<map, stupid, op, call>>

\* The iterator goes out of scope and the borrow of the map ends.
GapsDrop ==
    /\ gaps.alive
    /\ gaps' = NoGaps
    /\ UNCHANGED <<map, stupid, op, call>>

NextGaps == Insert \/ Remove \/ GapsStart \/ GapsNext \/ GapsDrop

\* Any sequence of insert and remove calls, with gaps() iterators taken
\* from the map and driven in between.
SpecGaps == Init /\ [][NextGaps]_vars

(***************************************************************************)
(* Range::new, overlaps and touches as functions of their arguments.       *)
(***************************************************************************)
\* Range::new returns Self from every arm of its match; None stands for a
\* call that does not return a range.
Range_new_result(start, end) == Some(Range_new(start, end))

\* The arguments of two Range::new calls: any bounds, in any order.
InitRange ==
    /\ map = {}
    /\ stupid = StupidNew
    /\ op = [kind |-> "new", range |-> full, value |-> FALSE]
    /\ gaps = NoGaps
    /\ \E s1 \in Bound, e1 \in Bound, s2 \in Bound, e2 \in Bound :
          call = [pc |-> "args", s1 |-> s1, e1 |-> e1, s2 |-> s2, e2 |-> e2]

\* a = Range::new((s1, e1)), b = Range::new((s2, e2)).
RangeNew ==
    /\ call.pc = "args"
    /\ call' = [pc |-> "new", s1 |-> call.s1, e1 |-> call.e1,
                s2 |-> call.s2, e2 |-> call.e2,
                a |-> Range_new_result(call.s1, call.e1),
                b |-> Range_new_result(call.s2, call.e2)]
    /\ UNCHANGED <<map, stupid, op, gaps>>

\* a.overlaps(&b), b.overlaps(&a), a.touches(&b), b.touches(&a).
RangeCompare ==
    /\ call.pc = "new"
    /\ IsSome(call.a)
    /\ IsSome(call.b)
    /\ LET a == Unwrap(call.a)
           b == Unwrap(call.b)
       IN  call' = [pc |-> "done", s1 |-> call.s1, e1 |-> call.e1,
                    s2 |-> call.s2, e2 |-> call.e2,
                    a |-> call.a, b |-> call.b,
                    overlaps_ab |-> overlaps(a, b),
                    overlaps_ba |-> overlaps(b, a),
                    touches_ab |-> touches(a, b),
                    touches_ba |-> touches(b, a)]
    /\ UNCHANGED <<map, stupid, op, gaps>>

NextRange == RangeNew \/ RangeCompare

\* Two ranges built from arbitrary bounds, then compared.
SpecRange == InitRange /\ [][NextRange]_vars

(***************************************************************************)
(* iter(): the double-ended, exact-size iterator over the stored entries.  *)
(***************************************************************************)
\* What a call on Iter leaves: the entries still to come and the returned
\* Option.
IterStep(it, ret) == [iter |-> it, ret |-> ret]

\* Iter::next: the first of the remaining entries.
iter_next(it) ==
    IF it # <<>> THEN IterStep(Tail(it), Some(Head(it)))
    ELSE IterStep(it, None)

\* Iter::next_back: the last of the remaining entries.
iter_next_back(it) ==
    IF it # <<>> THEN IterStep(SubSeq(it, 1, Len(it) - 1), Some(it[Len(it)]))
    ELSE IterStep(it, None)

\* ExactSizeIterator::len.
iter_len(it) == Len(it)

\* RangeMap::iter: an iterator over the whole map.  `front` and `back` list
\* what next() and next_back() returned so far, `len` is what len() reports.
IterStart ==
    /\ gaps = NoGaps
    /\ call = NoCall
    /\ call' = [pc |-> "iter", iter |-> iter(map), front |-> <<>>,
                back |-> <<>>, len |-> iter_len(iter(map))]
    /\ UNCHANGED <<map, stupid, op, gaps>>

\* next(), then len().
IterNext ==
    /\ call.pc = "iter"
    /\ LET g == iter_next(call.iter)
       IN  call' = [call EXCEPT !.iter = g.iter,
                                !.front = IF IsSome(g.ret)
                                          THEN Append(@, Unwrap(g.ret)) ELSE @,
                                !.len = iter_len(g.iter)]
    /\ UNCHANGED <<map, stupid, op, gaps>>

\* next_back(), then len().
IterNextBack ==
    /\ call.pc = "iter"
    /\ LET g == iter_next_back(call.iter)
       IN  call' = [call EXCEPT !.iter = g.iter,
                                !.back = IF IsSome(g.ret)
                                         THEN Append(@, Unwrap(g.ret)) ELSE @,
                                !.len = iter_len(g.iter)]
    /\ UNCHANGED <<map, stupid, op, gaps>>

\* The iterator goes out of scope and the borrow of the map ends.
IterDrop ==
    /\ call.pc = "iter"
    /\ call' = NoCall
    /\ UNCHANGED <<map, stupid, op, gaps>>

NextIter == Insert \/ Remove \/ IterStart \/ IterNext \/ IterNextBack \/ IterDrop

\* Any sequence of insert and remove calls, with iter() iterators taken
\* from the map and driven from both ends in between.
SpecIter == Init /\ [][NextIter]_vars

(***************************************************************************)
(* gaps_in(range): the gaps iterator bounded by an outer range.            *)
(***************************************************************************)
\* GapsIn::next: the body is todo!(), which panics before anything is read
\* or written.
gaps_in_next(it, prev, bounds) ==
    [iter |-> it, prev |-> prev, ret |-> None, panic |-> TRUE]

\* RangeMap::gaps_in: a fresh iterator over the map, prev: None, with the
\* outer range kept as bounds.  `out` lists the ranges returned so far and
\* `nones` counts the calls that returned None.
GapsInStart ==
    /\ gaps = NoGaps
    /\ call = NoCall
    /\ \E R \in Ranges :
          call' = [pc |-> "gaps_in", iter |-> iter(map), prev |-> None,
                   bounds |-> R, out |-> <<>>, nones |-> 0, panic |-> FALSE]
    /\ UNCHANGED <<map, stupid, op, gaps>>

\* One call of next() on the live iterator.
GapsInNext ==
    /\ call.pc = "gaps_in"
    /\ ~call.panic
    /\ call.nones <= MaxAfterNone
    /\ LET g == gaps_in_next(call.iter, call.prev, call.bounds)
       IN  call' = [call EXCEPT !.iter = g.iter,
                                !.prev = g.prev,
                                !.out = IF IsSome(g.ret)
                                        THEN Append(@, Unwrap(g.ret)) ELSE @,
                                !.nones = IF IsSome(g.ret) \/ g.panic
                                          THEN @ ELSE @ + 1,
                                !.panic = g.panic]
    /\ UNCHANGED <<map, stupid, op, gaps>>

\* The iterator goes out of scope and the borrow of the map ends.
GapsInDrop ==
    /\ call.pc = "gaps_in"
    /\ ~call.panic
    /\ call' = NoCall
    /\ UNCHANGED <<map, stupid, op, gaps>>

NextGapsIn == Insert \/ Remove \/ GapsInStart \/ GapsInNext \/ GapsInDrop

\* Any sequence of insert and remove calls, with gaps_in() iterators taken
\* from the map and driven in between.
SpecGapsIn == Init /\ [][NextGapsIn]_vars

(***************************************************************************)
(* bound_before / bound_after as functions of a range, with a key to test  *)
(* the two sides of each boundary.                                         *)
(***************************************************************************)
\* The bounds of a range and a key: any bounds, any key.
InitBounds ==
    /\ map = {}
    /\ stupid = StupidNew
    /\ op = [kind |-> "new", range |-> full, value |-> FALSE]
    /\ gaps = NoGaps
    /\ \E s \in Bound, e \in Bound, p \in Points :
          call = [pc |-> "bounds", s |-> s, e |-> e, p |-> p]

\* r = Range::new((s, e)); r.bound_before(), r.bound_after(), and each of
\* the two taken back across the boundary.
BoundAdjacent ==
    /\ call.pc = "bounds"
    /\ LET r == Range_new(call.s, call.e)
           bb == bound_before(r)
           ba == bound_after(r)
       IN  call' = [pc |-> "adjacent", s |-> call.s, e |-> call.e,
                    p |-> call.p, r |-> r,
                    before |-> bb,
                    after |-> ba,
                    after_before |-> IF IsSome(bb) THEN after(Unwrap(bb)) ELSE None,
                    before_after |-> IF IsSome(ba) THEN before(Unwrap(ba)) ELSE None]
    /\ UNCHANGED <<map, stupid, op, gaps>>

NextBounds == BoundAdjacent

\* A range built from arbitrary bounds and its two adjacent bounds.
SpecBounds == InitBounds /\ [][NextBounds]_vars

TypeOK ==
    /\ \A E \in map : E.range.start \in Bound /\ E.range.end \in Bound
                      /\ E.value \in Values
    /\ op.kind \in {"new", "insert", "remove", "values_mut"}

(***************************************************************************)
(* Vocabulary of the properties, stated on the bounds themselves and not   *)
(* through Range::overlaps / Range::touches.                               *)
(***************************************************************************)
\* a lies wholly before b: a's end and b's start are bounded and a ends
\* below b's start, or at the same value without both including it.
EndsBefore(a, b) ==
    /\ a.end.kind # "Unbounded"
    /\ b.start.kind # "Unbounded"
    /\ \/ a.end.val < b.start.val
       \/ /\ a.end.val = b.start.val
          /\ ~(a.end.kind = "Included" /\ b.start.kind = "Included")

\* a and b have no region in common.
Apart(a, b) == EndsBefore(a, b) \/ EndsBefore(b, a)

\* a and b meet with zero gap and without overlap.
Adjacent(a, b) ==
    \/ after(a.end) = Some(b.start)
    \/ after(b.end) = Some(a.start)

\* a covers b: a starts no later and ends no earlier than b.
Covers(a, b) ==
    /\ ~StartBoundLt(b.start, a.start)
    /\ ~EndBoundLt(a.end, b.end)

Called(kind) == op.kind = kind

(***************************************************************************)
(* C1: after any sequence of insert and remove calls from the empty map,   *)
(* no two distinct stored ranges overlap: Range::overlaps is false for     *)
(* every pair of stored entries, and no key lies in two of them.           *)
(***************************************************************************)
C1_NoOverlap ==
    \A E1 \in map, E2 \in map :
        E1 # E2 =>
            /\ ~overlaps(E1.range, E2.range)
            /\ \A p \in Points : ~(contains(E1.range, p) /\ contains(E2.range, p))

\* Three entries stored side by side, with an Unbounded, an Included and an
\* Excluded bound among them.
C1_Witness ==
    /\ Cardinality(map) >= 3
    /\ \E E \in map : E.range.start.kind = "Unbounded"
    /\ \E E \in map : E.range.start.kind = "Excluded"
    /\ \E E \in map : E.range.end.kind = "Included"

(***************************************************************************)
(* C2: after any sequence of insert and remove calls, no two stored ranges *)
(* that touch (meet with zero gap) carry equal values; this holds after    *)
(* remove too, which runs no merge pass.                                   *)
(***************************************************************************)
C2_NoEqualAdjacent ==
    \A E1 \in map, E2 \in map :
        (E1 # E2 /\ (touches(E1.range, E2.range) \/ Adjacent(E1.range, E2.range)))
            => E1.value # E2.value

\* A remove has split an entry: two survivors of equal value end and start
\* at the removed range.
C2_Witness ==
    /\ Called("remove")
    /\ \E E1 \in map, E2 \in map :
          /\ E1.value = E2.value
          /\ before(op.range.start) = Some(E1.range.end)
          /\ after(op.range.end) = Some(E2.range.start)

(***************************************************************************)
(* C3: after each call the map agrees point by point with the brute-force  *)
(* reference map: the same keys are covered and each covered key has the   *)
(* same value, both looked up through get and converted entry by entry.    *)
(***************************************************************************)
C3_AgreesWithStupid ==
    /\ \A p \in Points : get(map, p) = stupid[p]
    /\ StupidFrom(map) = stupid

\* Both values and an uncovered key are present after a remove.
C3_Witness ==
    /\ Called("remove")
    /\ \E p \in Points : stupid[p] = Some(TRUE)
    /\ \E p \in Points : stupid[p] = Some(FALSE)
    /\ \E p \in Points : stupid[p] = None
    /\ Cardinality(map) >= 2

(***************************************************************************)
(* C4: immediately after insert(r, v), get(p) = Some(v) for every key p    *)
(* contained in r.                                                         *)
(***************************************************************************)
C4_InsertedIsFound ==
    Called("insert") =>
        \A p \in Points : contains(op.range, p) => get(map, p) = Some(op.value)

\* An insert over several keys into a map that keeps other entries.
C4_Witness ==
    /\ Called("insert")
    /\ Cardinality({p \in Points : contains(op.range, p)}) >= 2
    /\ Cardinality(map) >= 2

(***************************************************************************)
(* C5: insert(r, v) changes nothing outside r: get(p) is the same before   *)
(* and after for every key p not contained in r, and a stored entry that   *)
(* only touches r, with a value other than v, stays stored as it was.      *)
(***************************************************************************)
C5_InsertFrame ==
    [][op'.kind = "insert" =>
          /\ \A p \in Points :
                ~contains(op'.range, p) => get(map', p) = get(map, p)
          /\ \A E \in map :
                (Adjacent(E.range, op'.range) /\ E.value # op'.value)
                    => E \in map']_vars

\* The inserted range stands next to an entry of the other value that
\* touches it.
C5_Witness ==
    /\ Called("insert")
    /\ \E E \in map, N \in map :
          /\ N.range = op.range
          /\ N.value = op.value
          /\ E.value # op.value
          /\ Adjacent(E.range, op.range)

(***************************************************************************)
(* C6: immediately after remove(r), get(p) = None for every key p          *)
(* contained in r.                                                         *)
(***************************************************************************)
C6_RemovedIsAbsent ==
    Called("remove") =>
        \A p \in Points : contains(op.range, p) => get(map, p) = None

\* A remove that left entries on both sides of the removed keys.
C6_Witness ==
    /\ Called("remove")
    /\ \E p \in Points : contains(op.range, p)
    /\ \E E \in map : EndsBefore(E.range, op.range)
    /\ \E E \in map : EndsBefore(op.range, E.range)

(***************************************************************************)
(* C7: remove(r) leaves every stored entry that does not overlap r as it   *)
(* was, entries that only touch r included; when no stored entry overlaps  *)
(* r (on an empty map in particular) the map is left exactly as it was.    *)
(***************************************************************************)
C7_RemoveFrame ==
    [][op'.kind = "remove" =>
          /\ \A E \in map : Apart(E.range, op'.range) => E \in map'
          /\ (\A E \in map : Apart(E.range, op'.range)) => map' = map]_vars

\* A remove next to an entry that touches the removed range and is kept.
C7_Witness ==
    /\ Called("remove")
    /\ \E E \in map : Adjacent(E.range, op.range)

(***************************************************************************)
(* C8: insert(r, v) is idempotent: a second insert(r, v) right after the   *)
(* first leaves the stored entries exactly as the first left them.         *)
(***************************************************************************)
C8_InsertIdempotent ==
    Called("insert") => insert(map, op.range, op.value) = map

\* The first insert both merged into an equal-valued neighbour and cut an
\* entry of the other value.
C8_Witness ==
    /\ Called("insert")
    /\ \E N \in map :
          /\ N.value = op.value
          /\ N.range # op.range
          /\ Covers(N.range, op.range)
    /\ \E E \in map : E.value # op.value /\ Adjacent(E.range, op.range)

(***************************************************************************)
(* C9: insert(r, v) stores exactly one entry with value v covering r; its  *)
(* range is r extended to the least start and greatest end among the       *)
(* stored entries with value v that overlapped or touched r, and every     *)
(* such entry is absorbed into it.                                         *)
(***************************************************************************)
C9_Coalesced ==
    [][op'.kind = "insert" =>
          LET R == op'.range
              S == {E \in map : /\ E.value = op'.value
                                /\ (~Apart(E.range, R) \/ Adjacent(E.range, R))}
              starts == {R.start} \cup {E.range.start : E \in S}
              ends == {R.end} \cup {E.range.end : E \in S}
              N == {E \in map' : E.value = op'.value /\ Covers(E.range, R)}
          IN  /\ Cardinality(N) = 1
              /\ \A E \in N :
                    /\ E.range.start \in starts
                    /\ E.range.end \in ends
                    /\ \A s \in starts : ~StartBoundLt(s, E.range.start)
                    /\ \A e \in ends : ~EndBoundLt(E.range.end, e)
              /\ \A E \in S : E \in map' => E \in N]_vars

\* The stored entry with the inserted value reaches beyond the inserted
\* range on both sides: equal-valued neighbours were absorbed.
C9_Witness ==
    /\ Called("insert")
    /\ \E N \in map :
          /\ N.value = op.value
          /\ StartBoundLt(N.range.start, op.range.start)
          /\ EndBoundLt(op.range.end, N.range.end)

(***************************************************************************)
(* C10: when insert(r, v) overlaps a stored entry E of another value, E is *)
(* replaced by exactly the parts of E outside r, each with E's value:      *)
(* [E.start, before(r.start)) and/or (after(r.end), E.end]; an r strictly  *)
(* inside E yields three entries, an r over one end of E yields two.       *)
(***************************************************************************)
C10_Parts(E, R) ==
    (IF StartBoundLt(E.range.start, R.start)
     THEN {Entry(Range(E.range.start, Unwrap(before(R.start))), E.value)}
     ELSE {})
    \cup
    (IF EndBoundLt(R.end, E.range.end)
     THEN {Entry(Range(Unwrap(after(R.end)), E.range.end), E.value)}
     ELSE {})

C10_Split ==
    [][op'.kind = "insert" =>
          \A E \in map :
              (E.value # op'.value /\ ~Apart(E.range, op'.range)) =>
                  /\ E \notin map'
                  /\ C10_Parts(E, op'.range) \subseteq map'
                  /\ \A X \in map' :
                        (X.value = E.value /\ ~Apart(X.range, E.range))
                            => X \in C10_Parts(E, op'.range)
                  /\ map = {E} =>
                        Cardinality(map') = 1 + Cardinality(C10_Parts(E, op'.range))]_vars

\* An insert strictly inside an entry of the other value: three entries.
C10_Witness ==
    /\ Called("insert")
    /\ Cardinality(map) = 3
    /\ \E H \in map, N \in map, T \in map :
          /\ N.range = op.range /\ N.value = op.value
          /\ H.value # op.value /\ T.value # op.value
          /\ before(op.range.start) = Some(H.range.end)
          /\ after(op.range.end) = Some(T.range.start)

(***************************************************************************)
(* C11: for each stored entry E overlapping the removed range r, remove(r) *)
(* leaves exactly the part of E outside r, with E's value: nothing when E  *)
(* is wholly inside r, (after(r.end), E.end] when r covers a prefix of E,  *)
(* [E.start, before(r.start)) when r covers a suffix, both when r lies     *)
(* strictly inside E.                                                      *)
(***************************************************************************)
C11_RemoveParts ==
    [][op'.kind = "remove" =>
          \A E \in map :
              ~Apart(E.range, op'.range) =>
                  LET R == op'.range
                      head == StartBoundLt(E.range.start, R.start)
                      tail == EndBoundLt(R.end, E.range.end)
                      left == {X \in map' : ~Apart(X.range, E.range)}
                  IN  /\ E \notin map'
                      /\ (~head /\ ~tail) => left = {}
                      /\ (~head /\ tail) =>
                            left = {Entry(Range(Unwrap(after(R.end)), E.range.end),
                                          E.value)}
                      /\ (head /\ ~tail) =>
                            left = {Entry(Range(E.range.start, Unwrap(before(R.start))),
                                          E.value)}
                      /\ (head /\ tail) =>
                            left = {Entry(Range(E.range.start, Unwrap(before(R.start))),
                                          E.value),
                                    Entry(Range(Unwrap(after(R.end)), E.range.end),
                                          E.value)}]_vars

\* A remove strictly inside the only entry left its two ends, both with
\* included outer bounds.
C11_Witness ==
    /\ Called("remove")
    /\ Cardinality(map) = 2
    /\ \E H \in map, T \in map :
          /\ H.value = T.value
          /\ H.range.start.kind = "Included"
          /\ T.range.end.kind = "Included"
          /\ before(op.range.start) = Some(H.range.end)
          /\ after(op.range.end) = Some(T.range.start)

(***************************************************************************)
(* C12: get(p) returns Some(v) exactly when a stored entry's range         *)
(* contains p (an excluded end point is absent); that entry is unique, v   *)
(* is its value and get_range_value(p) returns that entry's range with     *)
(* the same value; otherwise both return None.                             *)
(***************************************************************************)
C12_GetIsContainment ==
    \A p \in Points :
        LET H == {E \in map : contains(E.range, p)}
        IN  /\ Cardinality(H) <= 1
            /\ H = {} => (get(map, p) = None /\ get_range_value(map, p) = None)
            /\ \A E \in H : /\ get(map, p) = Some(E.value)
                            /\ get_range_value(map, p) = Some(E)

\* An entry with an excluded end: its last key is found, its end point is
\* absent, and another entry starts further on.
C12_Witness ==
    \E E \in map, F \in map, p \in Points :
        /\ E.range.end = Excluded(p)
        /\ get(map, p - 1) = Some(E.value)
        /\ get(map, p) = None
        /\ StartBoundLt(Included(p), F.range.start)

(***************************************************************************)
(* C13 as stated: every stored range contains at least one key of the key  *)
(* domain.                                                                 *)
(***************************************************************************)
C13_HoldsAKey ==
    \A E \in map : \E p \in Points : contains(E.range, p)

\* A range is a non-empty interval of the bound order: a side is Unbounded,
\* or the start value is below the end value, or it is the point [x, x].
NonEmptyInterval(r) ==
    \/ r.start.kind = "Unbounded"
    \/ r.end.kind = "Unbounded"
    \/ r.start.val < r.end.val
    \/ /\ r.start.val = r.end.val
       /\ r.start.kind = "Included"
       /\ r.end.kind = "Included"

(***************************************************************************)
(* C13 as amended: every stored range is a non-empty interval of the bound *)
(* order (start value below end value, the point [x, x], or an Unbounded   *)
(* side); a range between two neighbouring keys, such as (1, 2), is stored *)
(* although it contains no key of a discrete key type.                     *)
(***************************************************************************)
C13_NonEmptyInterval ==
    \A E \in map : NonEmptyInterval(E.range)

\* A stored range that excludes both of two neighbouring keys.
C13_Witness ==
    \E E \in map, x \in BoundKeys :
        /\ E.range = Range(Excluded(x), Excluded(x + 1))
        /\ \A p \in Points : ~contains(E.range, p)

(***************************************************************************)
(* C15: insert(r, v) with r lying entirely inside a stored entry that      *)
(* already carries v leaves the map unchanged: the same entries, no split  *)
(* and no new entry.                                                       *)
(***************************************************************************)
C15_InsertInsideSame ==
    [][(/\ op'.kind = "insert"
        /\ \E E \in map : E.value = op'.value /\ Covers(E.range, op'.range))
          => map' = map]_vars

\* The whole key space is one entry and a single point of it has just been
\* inserted with the same value.
C15_Witness ==
    /\ Called("insert")
    /\ map = {Entry(full, op.value)}
    /\ op.range.start.kind = "Included"
    /\ op.range.start.val = op.range.end.val

(***************************************************************************)
(* C14: in every state reachable through the public mutations, in-place    *)
(* value edits through iter_mut() or values_mut() included, no two         *)
(* adjacent stored ranges carry equal values.                              *)
(***************************************************************************)
C14_MaximalAfterEdits ==
    \A E1 \in map, E2 \in map :
        Adjacent(E1.range, E2.range) => E1.value # E2.value

(***************************************************************************)
(* C16: gaps() yields, in ascending order, exactly one range per           *)
(* consecutive pair of stored entries, [after(prev.end),                   *)
(* before(next.start)], nothing before the first entry or after the last,  *)
(* and nothing at all for a map of zero or one entry.                      *)
(***************************************************************************)
\* The number of stored entries that lie wholly before E.
C16_Rank(E) == Cardinality({F \in map : EndsBefore(F.range, E.range)})

C16_At(i) == CHOOSE E \in map : C16_Rank(E) = i

\* One range per consecutive pair, in ascending order.
C16_Expected ==
    [i \in 1..(Cardinality(map) - 1) |->
        Range(Unwrap(after(C16_At(i - 1).range.end)),
              Unwrap(before(C16_At(i).range.start)))]

C16_GapsBetweenPairs ==
    gaps.alive =>
        /\ ~gaps.panic
        /\ Len(gaps.out) <= Len(C16_Expected)
        /\ \A i \in 1..Len(gaps.out) : gaps.out[i] = C16_Expected[i]
        /\ gaps.nones >= 1 => Len(gaps.out) = Len(C16_Expected)

\* An exhausted iterator over three entries that returned two different gaps.
C16_Witness ==
    /\ gaps.alive
    /\ gaps.nones >= 1
    /\ Cardinality(map) = 3
    /\ Len(gaps.out) = 2
    /\ gaps.out[1] # gaps.out[2]

(***************************************************************************)
(* C17: the gaps() iterator is fused: once next() has returned None,       *)
(* every later call of next() returns None.                                *)
(***************************************************************************)
C17_Fused ==
    [][(gaps.alive /\ gaps'.alive /\ gaps' # gaps /\ gaps.nones >= 1)
          => (gaps'.ret = None /\ ~gaps'.panic)]_vars

\* A gap was returned, then None, and next() was called again.
C17_Witness ==
    /\ gaps.alive
    /\ Len(gaps.out) >= 1
    /\ gaps.nones >= 2

(***************************************************************************)
(* C18: Range::new normalizes its input: two bounded endpoints in          *)
(* decreasing order are swapped, so the start value is below the end       *)
(* value; two bounded endpoints at the same value with at least one side   *)
(* inclusive give the point [x, x]; an input in increasing order, or with  *)
(* an Unbounded side, is kept as given.                                    *)
(***************************************************************************)
C18_Normalized(s, e, res) ==
    LET bounded == s.kind # "Unbounded" /\ e.kind # "Unbounded"
    IN  /\ IsSome(res)
        /\ (bounded /\ s.val > e.val) =>
              /\ Unwrap(res) = [start |-> e, end |-> s]
              /\ Unwrap(res).start.val < Unwrap(res).end.val
        /\ (bounded /\ s.val = e.val
                /\ (s.kind = "Included" \/ e.kind = "Included")) =>
              Unwrap(res) = [start |-> Included(s.val), end |-> Included(s.val)]
        /\ (~bounded \/ s.val < e.val) =>
              Unwrap(res) = [start |-> s, end |-> e]

C18_NewNormalizes ==
    call.pc \in {"new", "done"} =>
        /\ C18_Normalized(call.s1, call.e1, call.a)
        /\ C18_Normalized(call.s2, call.e2, call.b)

\* One call with a decreasing pair and one with a half-open point.
C18_Witness ==
    /\ call.pc = "new"
    /\ call.s1.kind = "Excluded" /\ call.e1.kind = "Included"
    /\ call.s1.val > call.e1.val
    /\ call.s2.kind = "Excluded" /\ call.e2.kind = "Included"
    /\ call.s2.val = call.e2.val

(***************************************************************************)
(* C19: Range::new given a start and an end that are both Excluded at the  *)
(* same value rejects the input and does not return a range.               *)
(***************************************************************************)
C19_RejectsExcludedPoint ==
    (/\ call.pc \in {"new", "done"}
     /\ call.s1.kind = "Excluded"
     /\ call.e1.kind = "Excluded"
     /\ call.s1.val = call.e1.val) => call.a = None

(***************************************************************************)
(* C20: for normalized ranges a and b, a.overlaps(b) is true exactly when  *)
(* some key is contained in both; it is decided by comparing the later of  *)
(* the two starts with the earlier of the two ends.                        *)
(***************************************************************************)
C20_CommonKey(a, b) == \E p \in Points : contains(a, p) /\ contains(b, p)

C21_MeetAt(a, b) ==
    /\ a.end.kind # "Unbounded"
    /\ b.start.kind # "Unbounded"
    /\ a.end.val = b.start.val

\* a ends at a value below the one b starts at.
C21_Separated(a, b) ==
    /\ a.end.kind # "Unbounded"
    /\ b.start.kind # "Unbounded"
    /\ a.end.val < b.start.val

C21_TouchesCases(a, b, t) ==
    /\ (C21_MeetAt(a, b)
          /\ (a.end.kind = "Included" \/ b.start.kind = "Included")) => t
    /\ (C21_MeetAt(a, b)
          /\ a.end.kind = "Excluded" /\ b.start.kind = "Excluded") => ~t
    /\ C21_Separated(a, b) => ~t

C21_TouchesIffOverlapOrMeet ==
    call.pc = "done" =>
        LET a == Unwrap(call.a)
            b == Unwrap(call.b)
        IN  /\ call.touches_ab <=> (~Apart(a, b) \/ Adjacent(a, b))
            /\ call.overlaps_ab => call.touches_ab
            /\ C21_TouchesCases(a, b, call.touches_ab)
            /\ C21_TouchesCases(b, a, call.touches_ab)

\* Two ranges that meet at a value without overlapping, and touch.
C21_Witness ==
    /\ call.pc = "done"
    /\ call.touches_ab
    /\ ~call.overlaps_ab
    /\ C21_MeetAt(Unwrap(call.a), Unwrap(call.b))
    /\ Unwrap(call.a).end.kind = "Excluded"

(***************************************************************************)
(* C29: overlaps and touches are symmetric: for every pair of ranges a     *)
(* and b with any combination of Included, Excluded and Unbounded bounds,  *)
(* a.overlaps(b) = b.overlaps(a) and a.touches(b) = b.touches(a).          *)
(***************************************************************************)
C29_Symmetric ==
    call.pc = "done" =>
        /\ call.overlaps_ab = call.overlaps_ba
        /\ call.touches_ab = call.touches_ba

\* Two different ranges mixing the three kinds of bound, compared both ways.
C29_Witness ==
    /\ call.pc = "done"
    /\ Unwrap(call.a).start.kind = "Unbounded"
    /\ Unwrap(call.a).end.kind = "Excluded"
    /\ Unwrap(call.b).start.kind = "Included"
    /\ Unwrap(call.b).end.kind = "Unbounded"
    /\ call.touches_ba
    /\ ~call.overlaps_ba

(***************************************************************************)
(* C22: on any reachable map, iter() yields every stored entry exactly     *)
(* once in strictly ascending order of range (each yielded range ends      *)
(* before the next one starts), reverse traversal yields the same entries  *)
(* in the opposite order, and the reported length equals the number of     *)
(* entries still to be yielded.                                            *)
(***************************************************************************)
\* Each range of the sequence ends before the next one starts.
C22_Ascending(seq) ==
    \A i \in 1..Len(seq), j \in 1..Len(seq) :
        i < j => EndsBefore(seq[i].range, seq[j].range)

C22_Reverse(seq) == [i \in 1..Len(seq) |-> seq[Len(seq) + 1 - i]]

C22_IterInOrder ==
    call.pc = "iter" =>
        LET all == call.front \o C22_Reverse(call.back)
        IN  /\ C22_Ascending(all)
            /\ \A i \in 1..Len(all) : all[i] \in map
            /\ call.len = Cardinality(map) - Len(all)
            /\ call.len = 0 => {all[i] : i \in 1..Len(all)} = map

\* Three entries, all yielded, from the front and from the back.
C22_Witness ==
    /\ call.pc = "iter"
    /\ Cardinality(map) = 3
    /\ call.len = 0
    /\ Len(call.front) = 1
    /\ Len(call.back) = 2

(***************************************************************************)
(* C23: gaps_in(outer_range) yields the maximal uncovered intervals        *)
(* clipped to outer_range, the gap before the first stored entry and the   *)
(* gap after the last one included when outer_range extends there, then    *)
(* reports no further items.                                               *)
(***************************************************************************)
\* p lies in the outer range and in no stored range.
C23_Uncovered(p) ==
    /\ contains(call.bounds, p)
    /\ \A E \in map : ~contains(E.range, p)

C23_GapsInClipped ==
    call.pc = "gaps_in" =>
        /\ ~call.panic
        /\ \A i \in 1..Len(call.out) :
              \A p \in Points : contains(call.out[i], p) => C23_Uncovered(p)
        /\ \A i \in 1..Len(call.out), j \in 1..Len(call.out) :
              i < j => /\ EndsBefore(call.out[i], call.out[j])
                       /\ ~Adjacent(call.out[i], call.out[j])
        /\ call.nones >= 1 =>
              \A p \in Points :
                  C23_Uncovered(p) =>
                      \E i \in 1..Len(call.out) : contains(call.out[i], p)

(***************************************************************************)
(* C24: for every map reachable through insert and remove, driving gaps()  *)
(* to exhaustion never hits the "Unbounded internal range in RangeMap"     *)
(* failure: every entry that is second or later in the order has a         *)
(* bounded start, so before(next.start) is always there.                   *)
(***************************************************************************)
C24_NoUnboundedInternal ==
    /\ \A E \in map, F \in map :
          EndsBefore(F.range, E.range) => IsSome(bound_before(E.range))
    /\ gaps.alive => ~gaps.panic

\* gaps() driven to exhaustion over a map whose first entry is unbounded
\* below and whose last entry is unbounded above.
C24_Witness ==
    /\ gaps.alive
    /\ gaps.nones >= 1
    /\ Len(gaps.out) >= 1
    /\ \E E \in map : E.range.start.kind = "Unbounded"
    /\ \E E \in map : E.range.end.kind = "Unbounded"

(***************************************************************************)
(* C25: every range yielded by gaps() on a reachable map is a genuine      *)
(* gap: it contains at least one key, and no key it contains is covered    *)
(* by a stored entry (get returns None for each of its keys); also when    *)
(* two consecutive entries with different values touch.                    *)
(***************************************************************************)
C25_GapsAreGenuine ==
    gaps.alive =>
        \A i \in 1..Len(gaps.out) :
            /\ \E p \in Points : contains(gaps.out[i], p)
            /\ \A p \in Points : contains(gaps.out[i], p) => get(map, p) = None

(***************************************************************************)
(* C26: the adjacency functions keep the value and flip the kind           *)
(* (Included(x) to Excluded(x), Excluded(x) to Included(x)) and return     *)
(* None for Unbounded, so for every bounded start s and every key p        *)
(* exactly one of "p lies at or after s" and "p lies at or before          *)
(* before(s)" holds, and symmetrically for every bounded end e and         *)
(* after(e); after(before(s)) = s and before(after(e)) = e.                *)
(***************************************************************************)
\* p is admitted by the start bound s.
C26_FromStart(s, p) ==
    \/ s.kind = "Unbounded"
    \/ s.kind = "Included" /\ s.val <= p
    \/ s.kind = "Excluded" /\ s.val < p

\* p is admitted by the end bound e.
C26_UpToEnd(e, p) ==
    \/ e.kind = "Unbounded"
    \/ e.kind = "Included" /\ p <= e.val
    \/ e.kind = "Excluded" /\ p < e.val

C26_Flipped(b, res) ==
    /\ b.kind = "Unbounded" => res = None
    /\ b.kind = "Included" => res = <<[kind |-> "Excluded", val |-> b.val]>>
    /\ b.kind = "Excluded" => res = <<[kind |-> "Included", val |-> b.val]>>

C26_AdjacentBounds ==
    call.pc = "adjacent" =>
        LET s == call.r.start
            e == call.r.end
        IN  /\ C26_Flipped(s, call.before)
            /\ C26_Flipped(e, call.after)
            /\ s.kind # "Unbounded" =>
                  /\ C26_FromStart(s, call.p) # C26_UpToEnd(Unwrap(call.before), call.p)
                  /\ call.after_before = <<s>>
            /\ e.kind # "Unbounded" =>
                  /\ C26_UpToEnd(e, call.p) # C26_FromStart(Unwrap(call.after), call.p)
                  /\ call.before_after = <<e>>

\* A key sitting on the value of an Included start and an Excluded end.
C26_Witness ==
    /\ call.pc = "adjacent"
    /\ call.r.start.kind = "Included"
    /\ call.r.end.kind = "Excluded"
    /\ call.p = call.r.end.val
    /\ call.p > call.r.start.val

(***************************************************************************)
(* C27: on any reachable map and for any range r and value v, insert(r,    *)
(* v) followed by remove(r) leaves exactly the stored entries that         *)
(* remove(r) alone leaves on the original map; on an empty map the pair    *)
(* leaves the map empty.                                                   *)
(***************************************************************************)
C27_InsertThenRemove ==
    [][op'.kind = "insert" =>
          /\ remove(map', op'.range) = remove(map, op'.range)
          /\ map = {} => remove(map', op'.range) = {}]_vars

\* The insert merged into an equal-valued neighbour on each side and cut
\* into an entry of the other value; removing r leaves entries behind.
C27_Witness ==
    /\ Called("insert")
    /\ \E N \in map :
          /\ N.value = op.value
          /\ StartBoundLt(N.range.start, op.range.start)
          /\ EndBoundLt(op.range.end, N.range.end)
    /\ Cardinality(remove(map, op.range)) >= 2

(***************************************************************************)
(* C28: remove(r) is idempotent: on any reachable map, calling remove(r)   *)
(* twice in a row leaves exactly the stored entries that calling it once   *)
(* leaves.                                                                 *)
(***************************************************************************)
C28_RemoveIdempotent ==
    Called("remove") => remove(map, op.range) = map

\* The first remove cut the middle out of an entry.
C28_Witness ==
    /\ Called("remove")
    /\ \E E1 \in map, E2 \in map :
          /\ E1.value = E2.value
          /\ Adjacent(E1.range, op.range)
          /\ Adjacent(op.range, E2.range)
          /\ EndsBefore(E1.range, E2.range)

====
